---- MODULE Spec2Model ----
(***************************************************************************)
(* Model of the event-grid upload notifier.  Two handler variants exist:   *)
(* src/index.js (configuration from the environment, subject split into    *)
(* segments) and src/unnamed/part_000 (hard-coded storage connection,      *)
(* subject tested for '/renditions/').  One behaviour is one invocation    *)
(* of one of the two handlers with its asynchronous callbacks.             *)
(*                                                                         *)
(* Strings that the code takes apart are sequences of tokens: "/" is the   *)
(* separator and every other token is a run of characters without "/".     *)
(***************************************************************************)
EXTENDS Integers, Sequences, FiniteSets, TLC

\* ------------------------------------------------------------ bounds
MaxSubjectLen == 7
MaxMissing == 1
MaxMetaKeys == 1
MaxBuildKeys == 2

\* ------------------------------------------------------------ constants
SubjectSegments == 7
ContainerIndex == 4
HttpOk == 200

Undefined == "<undefined>"
NoError == "<no error>"
EmptyBody == ""

Truthy(v) == v # Undefined /\ v # ""

\* ------------------------------------------------------------ strings
Slash == "/"
SubjectTokens == {Slash, "renditions"}
RenditionsMarker == <<Slash, "renditions", Slash>>

ToLowerCase(tok) ==
    CASE tok = "X_RDP_" -> "x_rdp_"
      [] tok = "X-RDP-" -> "x-rdp-"
      [] tok = "Success" -> "success"
      [] tok = "SUCCESS" -> "success"
      [] OTHER -> tok

\* s.indexOf(pat): the first 0-based position of pat in s, -1 when absent
IndexOf(s, pat) ==
    LET hits == {i \in 1..(Len(s) - Len(pat) + 1) : SubSeq(s, i, i + Len(pat) - 1) = pat}
    IN  IF hits = {} THEN -1 ELSE (CHOOSE i \in hits : \A j \in hits : i <= j) - 1

\* s.split("/"): the pieces between the separators, in order
RECURSIVE Split(_)
Split(s) ==
    LET i == IndexOf(s, <<Slash>>)
    IN  IF i = -1 THEN <<s>>
        ELSE <<SubSeq(s, 1, i)>> \o Split(SubSeq(s, i + 2, Len(s)))

\* array.pop() on a non-empty array: its last element
Pop(a) == a[Len(a)]

SeqsUpTo(S, n) == UNION {[1..k -> S] : k \in 0..n}

Subjects == SeqsUpTo(SubjectTokens, MaxSubjectLen)

Urls == {<<"https:", Slash, Slash, "host", Slash, "container", Slash, "f1.jpg">>}

StatusCodes == {HttpOk, 500}

\* ------------------------------------------------------------ environment
EnvVars == {"StorageConStr", "ENV_RDP_HOST", "ENV_RDP_PORT", "ENV_CLIENT_ID",
            "ENV_DEFAULT_USER_ID", "ENV_DEFAULT_USER_ROLES"}

\* the value a variable has when it is set
EnvValue(v) ==
    CASE v = "StorageConStr" -> "storage-connection"
      [] v = "ENV_RDP_HOST" -> "rdp.example"
      [] v = "ENV_RDP_PORT" -> "8085"
      [] v = "ENV_CLIENT_ID" -> "defaultClient"
      [] v = "ENV_DEFAULT_USER_ID" -> "defaultUser"
      [] v = "ENV_DEFAULT_USER_ROLES" -> "defaultRoles"

\* process.env: the set of variables that are set (to a non-empty value)
Envs == {e \in SUBSET EnvVars : Cardinality(EnvVars \ e) <= MaxMissing}

\* the order in which getEnvironmentConfiguration tests the variables
IndexEnvOrder == <<"StorageConStr", "ENV_RDP_HOST", "ENV_RDP_PORT", "ENV_CLIENT_ID",
                   "ENV_DEFAULT_USER_ID", "ENV_DEFAULT_USER_ROLES">>
VariantEnvOrder == <<"ENV_RDP_HOST", "ENV_RDP_PORT", "ENV_CLIENT_ID",
                     "ENV_DEFAULT_USER_ID", "ENV_DEFAULT_USER_ROLES">>

Range(f) == {f[i] : i \in DOMAIN f}

\* obj.k of a JavaScript object: undefined when the object has no such field
Prop(obj, k) == IF k \in DOMAIN obj THEN obj[k] ELSE Undefined

\* the object built once every tested variable is present
EnvConfigObject ==
    [rdpHost |-> EnvValue("ENV_RDP_HOST"),
     rdpPort |-> EnvValue("ENV_RDP_PORT"),
     defaultClientId |-> EnvValue("ENV_CLIENT_ID"),
     defaultUserId |-> EnvValue("ENV_DEFAULT_USER_ID"),
     defaultUserRoles |-> EnvValue("ENV_DEFAULT_USER_ROLES")]

\* getEnvironmentConfiguration: null (isNull) with the message it logged and passed
\* to context.done for the first missing variable of the order, else the object
GetEnvironmentConfiguration(env, order) ==
    LET missing == {i \in 1..Len(order) : order[i] \notin env}
    IN  IF missing # {}
        THEN LET i == CHOOSE m \in missing : \A n \in missing : m <= n
             IN  [isNull |-> TRUE,
                  errorMsg |-> "Unable to locate environment variable " \o order[i],
                  config |-> EnvConfigObject]
        ELSE [isNull |-> FALSE, errorMsg |-> NoError, config |-> EnvConfigObject]

\* ------------------------------------------------------------ blob metadata
TenantIdKey == <<"x-rdp-", "tenantid">>
ClientIdKey == <<"x-rdp-", "clientid">>
UserIdKey == <<"x-rdp-", "userid">>
UserRolesKey == <<"x-rdp-", "userroles">>
OwnershipDataKey == <<"x-rdp-", "ownershipdata">>

RDP_ESCAPING_PREFIX == "x_rdp_"
RDP_PREFIX == "x-rdp-"

\* metadata keys and values the storage service may return
MetaKeys == {<<"x_rdp_", "tenantid">>, <<"x-rdp-", "tenantid">>,
             <<"X_RDP_", "tenantid">>, <<"color">>}
MetaValues == {"T1", ""}

\* an object's own properties in insertion order: distinct keys
MetadataObjects ==
    {m \in SeqsUpTo([key : MetaKeys, value : MetaValues], MaxMetaKeys) :
        \A i, j \in 1..Len(m) : m[i].key = m[j].key => i = j}

\* key.replace(RDP_ESCAPING_PREFIX, RDP_PREFIX): the first occurrence only
ReplacePrefix(key) ==
    LET i == IndexOf(key, <<RDP_ESCAPING_PREFIX>>)
    IN  IF i = -1 THEN key ELSE [key EXCEPT ![i + 1] = RDP_PREFIX]

LowerKey(key) == [i \in 1..Len(key) |-> ToLowerCase(key[i])]

NormalizeKey(key) == LowerKey(ReplacePrefix(key))

\* getBlobMetadata: the normalized key -> value object; a later entry that
\* normalizes to the same key overwrites an earlier one
GetBlobMetadata(metadata) ==
    [k \in {NormalizeKey(metadata[i].key) : i \in 1..Len(metadata)} |->
        LET at == {i \in 1..Len(metadata) : NormalizeKey(metadata[i].key) = k}
        IN  metadata[CHOOSE i \in at : \A j \in at : j <= i].value]

\* the own properties of the object getBlobMetadata builds from the first n
\* entries, in property order: a new key is appended, a repeated key keeps its
\* place and takes the later value
RECURSIVE NormalizedEntries(_, _)
NormalizedEntries(metadata, n) ==
    IF n = 0 THEN <<>>
    ELSE LET prev == NormalizedEntries(metadata, n - 1)
             entry == [key |-> NormalizeKey(metadata[n].key), value |-> metadata[n].value]
         IN  IF \E i \in 1..Len(prev) : prev[i].key = entry.key
             THEN [i \in 1..Len(prev) |-> IF prev[i].key = entry.key THEN entry ELSE prev[i]]
             ELSE Append(prev, entry)

\* the tenant id test reduced to the presence of the key
HasTenantIdKeyOnly(blobMetadata) == TenantIdKey \in DOMAIN blobMetadata

\* blobMetadata && blobMetadata['x-rdp-tenantid']
HasTenantId(blobMetadata) == Truthy(Prop(blobMetadata, TenantIdKey))

\* the lookup that always falls back to the default
GetPropertyValueDefaultOnly(blobMetadata, propertyName, defaultValue) == defaultValue

\* getPropertyValueFromMetadata
GetPropertyValueFromMetadata(blobMetadata, propertyName, defaultValue) ==
    IF Truthy(Prop(blobMetadata, propertyName))
    THEN blobMetadata[propertyName] ELSE defaultValue

\* createRequestHeaders
CreateRequestHeaders(envConfig, blobMetadata) ==
    LET names == {"Content-Type", "x-rdp-version", "x-rdp-clientId", "x-rdp-tenantId",
                  "x-rdp-userId", "x-rdp-userRoles"}
                 \cup (IF Truthy(Prop(blobMetadata, OwnershipDataKey))
                       THEN {"x-rdp-ownershipData"} ELSE {})
    IN  [h \in names |->
            CASE h = "Content-Type" -> "application/json"
              [] h = "x-rdp-version" -> "8.1"
              [] h = "x-rdp-clientId" ->
                    GetPropertyValueFromMetadata(blobMetadata, ClientIdKey,
                                                 envConfig.defaultClientId)
              [] h = "x-rdp-tenantId" -> Prop(blobMetadata, TenantIdKey)
              [] h = "x-rdp-userId" ->
                    IF Truthy(Prop(blobMetadata, UserIdKey))
                    THEN blobMetadata[UserIdKey] ELSE envConfig.defaultUserId
              [] h = "x-rdp-userRoles" ->
                    IF Truthy(Prop(blobMetadata, UserRolesKey))
                    THEN blobMetadata[UserRolesKey] ELSE envConfig.defaultUserRoles
              [] h = "x-rdp-ownershipData" -> blobMetadata[OwnershipDataKey]]

\* the request options with the client id in the place of the tenant id
GetHttpRequestOptionsClientPath(envConfig, headers) ==
    [protocol |-> "http:",
     host |-> envConfig.rdpHost,
     port |-> envConfig.rdpPort,
     path |-> <<Slash, headers["x-rdp-clientId"], Slash, "api", Slash,
                "binarystreamobjectservice", Slash, "create">>,
     method |-> "POST",
     headers |-> headers]

\* getHttpRequestOptions
GetHttpRequestOptions(envConfig, headers) ==
    [protocol |-> "http:",
     host |-> envConfig.rdpHost,
     port |-> envConfig.rdpPort,
     path |-> <<Slash, headers["x-rdp-tenantId"], Slash, "api", Slash,
                "binarystreamobjectservice", Slash, "create">>,
     method |-> "POST",
     headers |-> headers]

\* ------------------------------------------------------------ descriptor
\* context.bindingData.invocationId
InvocationId == "invocation-1"

\* eventGridEvent.data of the invocation
EventData == [contentLength |-> 1024]

ObjectIdKey == <<"binarystreamobjectid">>
OriginalFileNameKey == <<"originalfilename">>
\* blobMetadata.TASK_ID_METADATA_PROPERTY: the property named by the identifier
TaskIdPropertyName == <<"TASK_ID_METADATA_PROPERTY">>
\* the value of the constant TASK_ID_METADATA_PROPERTY
TASK_ID_METADATA_PROPERTY == <<"x-rdp-", "taskid">>

\* obj[k] of an object given by its entries: undefined when it has no such key
RawProp(metadata, k) ==
    IF \E i \in 1..Len(metadata) : metadata[i].key = k
    THEN metadata[CHOOSE i \in 1..Len(metadata) : metadata[i].key = k].value
    ELSE Undefined

\* delete obj[k]
DeleteProp(metadata, k) ==
    LET keep(entry) == entry.key # k IN SelectSeq(metadata, keep)

\* propertyName.includes('x-rdp'): only the canonical prefix holds these characters
IncludesXRdp(propertyName) == \E i \in 1..Len(propertyName) : propertyName[i] = RDP_PREFIX

\* the object id taken from the tenant-independent invocation id only
AssignedObjectIdIgnoringMetadata(blobMetadata, invocationId) == invocationId

\* assignedObjectId
AssignedObjectId(blobMetadata, invocationId) ==
    IF Truthy(RawProp(blobMetadata, ObjectIdKey))
    THEN RawProp(blobMetadata, ObjectIdKey) ELSE invocationId

\* the task id looked up under the value of the constant
TaskIdByConstantValue(blobMetadata, invocationId) ==
    IF Truthy(RawProp(blobMetadata, TASK_ID_METADATA_PROPERTY))
    THEN RawProp(blobMetadata, TASK_ID_METADATA_PROPERTY) ELSE invocationId

\* taskId
TaskId(blobMetadata, invocationId) ==
    IF Truthy(RawProp(blobMetadata, TaskIdPropertyName))
    THEN RawProp(blobMetadata, TaskIdPropertyName) ELSE invocationId

\* buildBinaryStreamObject: the descriptor; property names are token sequences
BuildBinaryStreamObject(invocationId, eventData, blobObjectKey, metadata, headers) ==
    LET hasOriginal == Truthy(RawProp(metadata, OriginalFileNameKey))
        assignedOriginalFileName ==
            IF hasOriginal THEN <<RawProp(metadata, OriginalFileNameKey)>>
            ELSE Pop(Split(blobObjectKey))
        blobMetadata == IF hasOriginal THEN DeleteProp(metadata, OriginalFileNameKey)
                        ELSE metadata
        hasOwnership == Truthy(Prop(headers, "x-rdp-ownershipData"))
        fixed == {<<"objectKey">>, <<"originalFileName">>, <<"fullObjectPath">>,
                  <<"contentSize">>, <<"user">>, <<"role">>}
                 \cup (IF hasOwnership THEN {<<"ownershipData">>} ELSE {})
        copied == {blobMetadata[i].key : i \in 1..Len(blobMetadata)}
        applied == {k \in copied : ~IncludesXRdp(k) /\ k \notin fixed}
    IN  [clientAttributes |->
            [taskId |-> [values |-> <<[locale |-> "en-US", source |-> "internal",
                                       value |-> TaskId(blobMetadata, invocationId)]>>]],
         binaryStreamObject |->
            [id |-> AssignedObjectId(metadata, invocationId),
             type |-> "binarystreamobject",
             properties |->
                [k \in fixed \cup applied |->
                    CASE k = <<"objectKey">> -> blobObjectKey
                      [] k = <<"originalFileName">> -> assignedOriginalFileName
                      [] k = <<"fullObjectPath">> -> blobObjectKey
                      [] k = <<"contentSize">> -> eventData.contentLength
                      [] k = <<"user">> -> headers["x-rdp-userId"]
                      [] k = <<"role">> -> headers["x-rdp-userRoles"]
                      [] k = <<"ownershipData">> -> headers["x-rdp-ownershipData"]
                      [] OTHER -> RawProp(blobMetadata, k)]]]

\* ------------------------------------------------------------ HTTP response
\* response bodies the server may send (one 'data' chunk)
Bodies == {"not json", "null", "{}", "{\"response\":{}}",
           "{\"response\":{\"status\":\"success\"}}",
           "{\"response\":{\"status\":\"Success\"}}",
           "{\"response\":{\"status\":\"failed\"}}",
           "{\"response\":{\"status\":1}}"}

NonString == "<number>"

\* JSON.parse of a body: throws on malformed text, else the parsed document
\* (whether it is null, whether it has a truthy 'response', and response.status)
JSONParse(text) ==
    CASE text = "null" ->
            [throws |-> FALSE, isNull |-> TRUE, hasResponse |-> FALSE, status |-> Undefined]
      [] text = "{}" ->
            [throws |-> FALSE, isNull |-> FALSE, hasResponse |-> FALSE, status |-> Undefined]
      [] text = "{\"response\":{}}" ->
            [throws |-> FALSE, isNull |-> FALSE, hasResponse |-> TRUE, status |-> Undefined]
      [] text = "{\"response\":{\"status\":\"success\"}}" ->
            [throws |-> FALSE, isNull |-> FALSE, hasResponse |-> TRUE, status |-> "success"]
      [] text = "{\"response\":{\"status\":\"Success\"}}" ->
            [throws |-> FALSE, isNull |-> FALSE, hasResponse |-> TRUE, status |-> "Success"]
      [] text = "{\"response\":{\"status\":\"failed\"}}" ->
            [throws |-> FALSE, isNull |-> FALSE, hasResponse |-> TRUE, status |-> "failed"]
      [] text = "{\"response\":{\"status\":1}}" ->
            [throws |-> FALSE, isNull |-> FALSE, hasResponse |-> TRUE, status |-> NonString]
      [] OTHER ->
            [throws |-> TRUE, isNull |-> FALSE, hasResponse |-> FALSE, status |-> Undefined]

\* the verdict with the status compared without lower-casing it
InterpretResponseCaseSensitive(status, body) ==
    IF status = HttpOk /\ Truthy(body)
    THEN LET responseJson == JSONParse(body)
         IN  IF responseJson.throws THEN "throws"
             ELSE IF ~responseJson.isNull /\ responseJson.hasResponse
                     /\ Truthy(responseJson.status)
                  THEN IF responseJson.status = NonString THEN "throws"
                       ELSE IF responseJson.status = "success"
                            THEN "success" ELSE "failure"
                  ELSE "failure"
    ELSE "failure"

\* the 'end' handler's verdict on a response: "success", "failure", or "throws"
\* when JSON.parse or status.toLowerCase() raises
InterpretResponse(status, body) ==
    IF status = HttpOk /\ Truthy(body)
    THEN LET responseJson == JSONParse(body)
         IN  IF responseJson.throws THEN "throws"
             ELSE IF ~responseJson.isNull /\ responseJson.hasResponse
                     /\ Truthy(responseJson.status)
                  THEN IF responseJson.status = NonString THEN "throws"
                       ELSE IF ToLowerCase(responseJson.status) = "success"
                            THEN "success" ELSE "failure"
                  ELSE "failure"
    ELSE "failure"

\* ------------------------------------------------------------ state
VARIABLES
    handler,       \* which variant is deployed: "index" or "part_000"
    env,           \* process.env: the variables that are set
    pc,            \* "ready" before the invocation, "returned" once the handler returned
    subject,       \* eventGridEvent.subject
    url,           \* eventGridEvent.data.url
    fetchCalls,    \* the getBlobMetadata calls issued: [container, blob]
    fetchState,    \* "none", "pending" (callback outstanding), "calledBack"
    fetchResult,   \* what the storage service passed to the callback
    postCalls,     \* the POSTs issued: the http.request options and the body written
    postState,     \* "none", "sent", "responding", "ended", "errored"
    statusCode,    \* res.statusCode once the response arrived, else 0
    responseBody,  \* the chunks accumulated by the 'data' handler
    doneCalls,     \* the arguments of the context.done calls, in order
    logs,          \* the messages logged, in order
    crashed,       \* an exception left a callback uncaught
    trace          \* the steps of the invocation, in order

vars == <<handler, env, pc, subject, url, fetchCalls, fetchState, fetchResult,
          postCalls, postState, statusCode, responseBody, doneCalls, logs,
          crashed, trace>>

Handlers == {"index", "part_000"}

\* blobMetadataResult.name for the blob that the events of Urls name
BlobNames == {<<"f1.jpg">>}

NoResult == [error |-> FALSE, hasResult |-> FALSE, name |-> <<>>, metadata |-> <<>>]

\* what the storage service may pass to the callback
FetchOutcomes ==
    {[error |-> TRUE, hasResult |-> FALSE, name |-> <<>>, metadata |-> <<>>], NoResult}
    \cup {[error |-> FALSE, hasResult |-> TRUE, name |-> n, metadata |-> m] :
                n \in BlobNames, m \in MetadataObjects}

Init ==
    /\ handler \in Handlers
    /\ env \in Envs
    /\ pc = "ready"
    /\ subject = <<>>
    /\ url = <<>>
    /\ fetchCalls = <<>>
    /\ fetchState = "none"
    /\ fetchResult = NoResult
    /\ postCalls = <<>>
    /\ postState = "none"
    /\ statusCode = 0
    /\ responseBody = EmptyBody
    /\ doneCalls = <<>>
    /\ logs = <<>>
    /\ crashed = FALSE
    /\ trace = <<>>

\* ------------------------------------------------------------ src/index.js
\* the segment test off by one
SubjectAcceptedOffByOne(subjectVal) == Len(subjectVal) = SubjectSegments - 1

\* subjectVal.length == 7
SubjectAccepted(subjectVal) == Len(subjectVal) = SubjectSegments

\* envConfig && envConfig.StorageConStr
HasStorageCreds(cfg) == ~cfg.isNull /\ Truthy(Prop(cfg.config, "StorageConStr"))

\* the synchronous part of the handler of src/index.js
IndexHandler(subj, u) ==
    LET subjectVal == Split(subj)
        accepted == SubjectAccepted(subjectVal)
        cfg == GetEnvironmentConfiguration(env, IndexEnvOrder)
        cfgError == IF accepted /\ cfg.isNull THEN <<cfg.errorMsg>> ELSE <<>>
        doFetch == accepted /\ HasStorageCreds(cfg)
    IN  /\ fetchCalls' = IF doFetch
                         THEN Append(fetchCalls, [container |-> subjectVal[ContainerIndex + 1],
                                                  blob |-> Pop(subjectVal)])
                         ELSE fetchCalls
        /\ fetchState' = IF doFetch THEN "pending" ELSE fetchState
        /\ logs' = logs \o cfgError
        /\ doneCalls' = doneCalls \o cfgError \o <<NoError>>
        /\ trace' = trace \o <<"invoke">> \o [i \in 1..Len(cfgError) |-> "done"]
                          \o (IF doFetch THEN <<"fetch">> ELSE <<>>) \o <<"done">>

\* what a getBlobMetadata callback does: the messages it logs, the context.done
\* calls it makes and the POSTs it issues
IndexOnMetadata(outcome) ==
    LET cfg == GetEnvironmentConfiguration(env, IndexEnvOrder)
        blobMetadata == GetBlobMetadata(outcome.metadata)
        headers == CreateRequestHeaders(cfg.config, blobMetadata)
    IN  IF outcome.error
        THEN [logs |-> <<"Error fetching metadata", "subjectVal: ">>,
              done |-> <<NoError>>, posts |-> <<>>]
        ELSE IF ~outcome.hasResult
        THEN [logs |-> <<>>, done |-> <<>>, posts |-> <<>>]
        ELSE IF HasTenantId(blobMetadata)
        THEN [logs |-> <<>>, done |-> <<>>,
              posts |-> <<[options |-> GetHttpRequestOptions(cfg.config, headers),
                           body |-> BuildBinaryStreamObject(InvocationId, EventData,
                                        outcome.name, outcome.metadata, headers)]>>]
        ELSE [logs |-> <<"TenantId is not present in asset metadata">>,
              done |-> <<>>, posts |-> <<>>]

\* ------------------------------------------------------------ src/unnamed/part_000
VariantContainer == "rdp-media-assets-engg-az-qa5-rwtest"

\* subjectVal.indexOf('/renditions/') === -1
NotRendition(subj) == IndexOf(subj, RenditionsMarker) = -1

\* the synchronous part of the handler of src/unnamed/part_000
VariantHandler(subj, u) ==
    LET doFetch == NotRendition(subj)
    IN  /\ fetchCalls' = IF doFetch
                         THEN Append(fetchCalls, [container |-> VariantContainer,
                                                  blob |-> Pop(Split(u))])
                         ELSE fetchCalls
        /\ fetchState' = IF doFetch THEN "pending" ELSE fetchState
        /\ logs' = IF doFetch THEN logs ELSE Append(logs, "objectKey has slash in it")
        /\ doneCalls' = doneCalls
        /\ trace' = trace \o <<"invoke">> \o (IF doFetch THEN <<"fetch">> ELSE <<>>)

VariantOnMetadata(outcome) ==
    LET cfg == GetEnvironmentConfiguration(env, VariantEnvOrder)
        blobMetadata == GetBlobMetadata(outcome.metadata)
        headers == CreateRequestHeaders(cfg.config, blobMetadata)
    IN  IF outcome.error
        THEN [logs |-> <<"Error fetching metadata">>, done |-> <<>>, posts |-> <<>>]
        ELSE IF ~outcome.hasResult
        THEN [logs |-> <<>>, done |-> <<>>, posts |-> <<>>]
        ELSE IF cfg.isNull
        THEN [logs |-> <<cfg.errorMsg>>, done |-> <<cfg.errorMsg>>, posts |-> <<>>]
        ELSE IF HasTenantId(blobMetadata)
        THEN [logs |-> <<>>, done |-> <<>>,
              posts |-> <<[options |-> GetHttpRequestOptions(cfg.config, headers),
                           body |-> BuildBinaryStreamObject(InvocationId, EventData,
                                        outcome.name, outcome.metadata, headers)]>>]
        ELSE [logs |-> <<>>, done |-> <<>>, posts |-> <<>>]

\* ------------------------------------------------------------ actions
\* the platform invokes the handler with an event
Invoke ==
    /\ pc = "ready"
    /\ \E subj \in Subjects, u \in Urls :
        /\ subject' = subj
        /\ url' = u
        /\ IF handler = "index" THEN IndexHandler(subj, u) ELSE VariantHandler(subj, u)
    /\ pc' = "returned"
    /\ UNCHANGED <<handler, env, fetchResult, postCalls, postState, statusCode,
                   responseBody, crashed>>

\* the callback passed to getBlobMetadata runs with one of the outcomes
OnMetadata(outcomes) ==
    /\ fetchState = "pending"
    /\ ~crashed
    /\ \E outcome \in outcomes :
        LET eff == IF handler = "index" THEN IndexOnMetadata(outcome)
                   ELSE VariantOnMetadata(outcome)
        IN  /\ fetchResult' = outcome
            /\ logs' = logs \o eff.logs
            /\ doneCalls' = doneCalls \o eff.done
            /\ postCalls' = postCalls \o eff.posts
            /\ postState' = IF eff.posts # <<>> THEN "sent" ELSE postState
            /\ trace' = trace \o <<"callback">>
                              \o (IF eff.posts # <<>> THEN <<"build", "post">> ELSE <<>>)
                              \o [i \in 1..Len(eff.done) |-> "done"]
    /\ fetchState' = "calledBack"
    /\ UNCHANGED <<handler, env, pc, subject, url, fetchCalls, statusCode,
                   responseBody, crashed>>

\* the storage service answers: the callback passed to getBlobMetadata runs
MetadataCallback == OnMetadata(FetchOutcomes)

\* the request fails before any response: 'error' is emitted on req, which has
\* no listener, so the error is thrown and nothing catches it
RequestError ==
    /\ postState = "sent"
    /\ ~crashed
    /\ postState' = "errored"
    /\ crashed' = TRUE
    /\ trace' = Append(trace, "requestError")
    /\ UNCHANGED <<handler, env, pc, subject, url, fetchCalls, fetchState, fetchResult,
                   postCalls, statusCode, responseBody, doneCalls, logs>>

\* the response head arrives: the callback passed to http.request registers the
\* 'data', 'error' and 'end' handlers
ResponseCallback ==
    /\ postState = "sent"
    /\ ~crashed
    /\ \E code \in StatusCodes : statusCode' = code
    /\ postState' = "responding"
    /\ trace' = Append(trace, "response")
    /\ UNCHANGED <<handler, env, pc, subject, url, fetchCalls, fetchState, fetchResult,
                   postCalls, responseBody, doneCalls, logs, crashed>>

\* res 'data': responseBody += chunk
ResponseData ==
    /\ postState = "responding"
    /\ ~crashed
    /\ responseBody = EmptyBody
    /\ \E chunk \in Bodies : responseBody' = chunk
    /\ UNCHANGED <<handler, env, pc, subject, url, fetchCalls, fetchState, fetchResult,
                   postCalls, postState, statusCode, doneCalls, logs, crashed, trace>>

RestErrorMsg == "Fail to make REST api call to post the binary stream object."

\* the 'end' handler posting the descriptor again when the call failed
ResponseEndRetry ==
    /\ postState = "responding"
    /\ ~crashed
    /\ LET verdict == InterpretResponse(statusCode, responseBody)
           retry == verdict = "failure" /\ Len(postCalls) < 2
       IN  /\ crashed' = (verdict = "throws")
           /\ doneCalls' = CASE verdict = "success" -> Append(doneCalls, NoError)
                             [] verdict = "failure" /\ ~retry -> Append(doneCalls, RestErrorMsg)
                             [] OTHER -> doneCalls
           /\ logs' = logs \o (IF verdict = "failure" THEN <<RestErrorMsg>> ELSE <<>>)
           /\ trace' = trace \o <<"interpret">>
                             \o (IF retry THEN <<"post">> ELSE <<>>)
                             \o (IF verdict = "throws" \/ retry THEN <<>> ELSE <<"done">>)
           /\ postCalls' = IF retry THEN Append(postCalls, postCalls[1]) ELSE postCalls
           /\ postState' = IF retry THEN "sent" ELSE "ended"
           /\ statusCode' = IF retry THEN 0 ELSE statusCode
           /\ responseBody' = IF retry THEN EmptyBody ELSE responseBody
    /\ UNCHANGED <<handler, env, pc, subject, url, fetchCalls, fetchState, fetchResult>>

\* res 'end': interpret the response and signal completion
ResponseEnd ==
    /\ postState = "responding"
    /\ ~crashed
    /\ LET verdict == InterpretResponse(statusCode, responseBody)
           echo == IF handler = "part_000" /\ statusCode = HttpOk /\ Truthy(responseBody)
                   THEN <<"RDP API Response: " \o responseBody>> ELSE <<>>
       IN  /\ crashed' = (verdict = "throws")
           /\ doneCalls' = CASE verdict = "success" -> Append(doneCalls, NoError)
                             [] verdict = "failure" -> Append(doneCalls, RestErrorMsg)
                             [] OTHER -> doneCalls
           /\ logs' = logs \o echo
                           \o (IF verdict = "failure" THEN <<RestErrorMsg>> ELSE <<>>)
           /\ trace' = trace \o <<"interpret">>
                             \o (IF verdict = "throws" THEN <<>> ELSE <<"done">>)
    /\ postState' = "ended"
    /\ UNCHANGED <<handler, env, pc, subject, url, fetchCalls, fetchState, fetchResult,
                   postCalls, statusCode, responseBody>>

RestCallErrorMsg == "Error while calling REST API: "

\* res 'error': log and signal completion with the error
ResponseError ==
    /\ postState = "responding"
    /\ ~crashed
    /\ postState' = "errored"
    /\ logs' = Append(logs, RestCallErrorMsg)
    /\ doneCalls' = Append(doneCalls, RestCallErrorMsg)
    /\ trace' = trace \o <<"responseError", "done">>
    /\ UNCHANGED <<handler, env, pc, subject, url, fetchCalls, fetchState, fetchResult,
                   postCalls, statusCode, responseBody, crashed>>

Next ==
    \/ Invoke
    \/ MetadataCallback
    \/ RequestError
    \/ ResponseCallback
    \/ ResponseData
    \/ ResponseEnd
    \/ ResponseError

Spec == Init /\ [][Next]_vars

\* ------------------------------------------------------------ payload building
\* The functions that build the headers and the descriptor, applied by the
\* metadata callback of src/unnamed/part_000 to a wider range of metadata objects:
\* a tenant id entry followed by up to MaxBuildKeys further entries, each either
\* empty or with a value of its own.
BuildEntries ==
    LET filled == {[key |-> <<"x_rdp_", "clientid">>, value |-> "client-escaped"],
                   [key |-> <<"x-rdp-", "clientid">>, value |-> "client"],
                   [key |-> <<"x-rdp-", "userid">>, value |-> "user"],
                   [key |-> <<"x-rdp-", "userroles">>, value |-> "roles"],
                   [key |-> <<"x-rdp-", "ownershipdata">>, value |-> "owner"],
                   [key |-> <<"x_rdp_", "ownershipdata">>, value |-> "owner-escaped"],
                   [key |-> ObjectIdKey, value |-> "B1"],
                   [key |-> OriginalFileNameKey, value |-> "f.jpg"],
                   [key |-> TaskIdPropertyName, value |-> "task-by-name"],
                   [key |-> TASK_ID_METADATA_PROPERTY, value |-> "task"],
                   [key |-> <<"x_rdp_", "taskid">>, value |-> "task-escaped"],
                   [key |-> <<"color">>, value |-> "red"],
                   [key |-> <<"user">>, value |-> "someone"],
                   [key |-> <<"my", "x-rdp-", "tag">>, value |-> "tagged"]}
    IN  filled \cup {[e EXCEPT !.value = ""] : e \in filled}
TenantEntries == {[key |-> k, value |-> "T1"] :
                    k \in {<<"x_rdp_", "tenantid">>, <<"x-rdp-", "tenantid">>}}
BuildNames == {<<"f1.jpg">>, <<"dir", Slash, "f2.jpg">>}

BuildObjects ==
    LET rest == {m \in SeqsUpTo(BuildEntries, MaxBuildKeys) :
                    \A i, j \in 1..Len(m) : m[i].key = m[j].key => i = j}
    IN  {<<t>> \o m : t \in TenantEntries, m \in rest}

BuildOutcomes ==
    {[error |-> FALSE, hasResult |-> TRUE, name |-> n, metadata |-> m] :
        n \in BuildNames, m \in BuildObjects}

\* the state of an invocation of part_000 whose fetch is outstanding, with the
\* answer of the storage service on its way in fetchResult
InitBuild ==
    /\ handler = "part_000"
    /\ env = EnvVars
    /\ pc = "returned"
    /\ subject = <<Slash, "blobs", Slash, "f1.jpg">>
    /\ url \in Urls
    /\ fetchCalls = <<[container |-> VariantContainer, blob |-> Pop(Split(url))]>>
    /\ fetchState = "pending"
    /\ fetchResult \in BuildOutcomes
    /\ postCalls = <<>>
    /\ postState = "none"
    /\ statusCode = 0
    /\ responseBody = EmptyBody
    /\ doneCalls = <<>>
    /\ logs = <<>>
    /\ crashed = FALSE
    /\ trace = <<"invoke", "fetch">>

BuildCallback == OnMetadata({fetchResult})

NextBuild == BuildCallback

SpecBuild == InitBuild /\ [][NextBuild]_vars

\* ------------------------------------------------------------ properties
Returned == pc = "returned"
Segments == Split(subject)
HasErrorSignal == \E i \in 1..Len(doneCalls) : doneCalls[i] # NoError
RequiredEnv == IF handler = "index" THEN Range(IndexEnvOrder) ELSE Range(VariantEnvOrder)
EnvComplete == RequiredEnv \subseteq env
FetchedTenantId == Prop(GetBlobMetadata(fetchResult.metadata), TenantIdKey)
\* nothing of the invocation is outstanding any more
Quiescent ==
    /\ Returned
    /\ fetchState # "pending"
    /\ postState \notin {"sent", "responding"}

\* C1: in src/index.js a subject that does not split into exactly 7 segments
\* leads to no metadata fetch and no POST, and the handler signals completion
\* once, with no error.
C1_RejectedSubjectNoAction ==
    (handler = "index" /\ Returned /\ Len(Segments) # SubjectSegments)
        => /\ fetchCalls = <<>>
           /\ postCalls = <<>>
           /\ doneCalls = <<NoError>>

C1_Witness ==
    /\ handler = "index"
    /\ Returned
    /\ Len(Segments) = SubjectSegments - 1
    /\ ~EnvComplete
    /\ doneCalls = <<NoError>>

\* C2: in src/index.js a subject of exactly 7 segments with every required
\* variable set makes the handler fetch the metadata of container = segment 4,
\* blob = last segment.
C2_AcceptedSubjectFetches ==
    (handler = "index" /\ Returned /\ Len(Segments) = SubjectSegments /\ EnvVars \subseteq env)
        => fetchCalls = <<[container |-> Segments[ContainerIndex + 1],
                           blob |-> Pop(Segments)]>>

\* C3: in either handler, when a required environment variable is unset no
\* network call (metadata fetch or POST) is attempted in the invocation, and an
\* invocation whose subject the handler accepts ends with an error signalled.
SubjectProcessed ==
    IF handler = "index" THEN Len(Segments) = SubjectSegments
    ELSE IndexOf(subject, RenditionsMarker) = -1

C3_ConfigMissingNoNetwork ==
    (Returned /\ ~EnvComplete)
        => /\ fetchCalls = <<>>
           /\ postCalls = <<>>
           /\ (Quiescent /\ SubjectProcessed) => HasErrorSignal

\* C4: in either handler, a fetched metadata object with no truthy
\* 'x-rdp-tenantid' entry after key normalization never leads to a POST.
C4_NoTenantNoPost ==
    (fetchState = "calledBack" /\ ~Truthy(FetchedTenantId)) => postCalls = <<>>

C4_Witness ==
    /\ fetchState = "calledBack"
    /\ fetchResult.hasResult
    /\ EnvComplete
    /\ fetchResult.metadata # <<>>
    /\ \E i \in 1..Len(fetchResult.metadata) :
            fetchResult.metadata[i].key = <<"X_RDP_", "tenantid">>
            /\ fetchResult.metadata[i].value = "T1"
    /\ ~Truthy(FetchedTenantId)
    /\ postCalls = <<>>

\* C5: once the response of the POST has been interpreted, completion is
\* signalled without error exactly when the status code is 200 and the body's
\* response.status is "success" in any letter case; a non-200 response and a
\* 200 response whose status is "failed" are signalled as failures.
ResponseStatusIs(word) ==
    LET responseJson == JSONParse(responseBody)
    IN  /\ ~responseJson.throws
        /\ responseJson.status \notin {Undefined, NonString}
        /\ ToLowerCase(responseJson.status) = word

C5_SuccessIffOkAndSuccess ==
    postState = "ended"
        => /\ doneCalls = <<NoError>> <=> (statusCode = HttpOk /\ ResponseStatusIs("success"))
           /\ (statusCode # HttpOk \/ ResponseStatusIs("failed"))
                => doneCalls = <<RestErrorMsg>>

C5_Witness ==
    /\ postState = "ended"
    /\ statusCode = HttpOk
    /\ responseBody = "{\"response\":{\"status\":\"Success\"}}"
    /\ doneCalls = <<NoError>>

\* C6: a POST that fails with a request error, or whose 200 response body is
\* not parseable JSON, ends with context.done called with an error message and
\* an error message logged.
PostFailedWithoutVerdict ==
    \/ "requestError" \in Range(trace)
    \/ postState = "ended" /\ statusCode = HttpOk /\ Truthy(responseBody)
       /\ JSONParse(responseBody).throws

C6_PostFailureSignalsError ==
    PostFailedWithoutVerdict
        => /\ HasErrorSignal
           /\ Range(logs) \cap {RestErrorMsg, RestCallErrorMsg} # {}

\* C7: in src/index.js, for an accepted subject with the configuration present,
\* completion is never signalled before the metadata-fetch callback has run
\* nor, when a POST was issued, before its response has been interpreted.
C7_DoneAfterCallbacks ==
    (handler = "index" /\ Len(Segments) = SubjectSegments /\ EnvComplete /\ doneCalls # <<>>)
        => /\ fetchState = "calledBack"
           /\ postCalls # <<>> => postState \in {"ended", "errored"}

\* C8: in either handler, after a failed metadata fetch no POST is issued and
\* completion is signalled with an error.
C8_FetchFailureSignalsError ==
    (fetchState = "calledBack" /\ fetchResult.error)
        => (postCalls = <<>> /\ HasErrorSignal)

\* C9: in src/unnamed/part_000 a subject containing '/renditions/' leads to no
\* metadata fetch and no POST, and the invocation ends with completion
\* signalled without error.
C9_RenditionEndsSuccessfully ==
    (handler = "part_000" /\ Quiescent /\ IndexOf(subject, RenditionsMarker) # -1)
        => /\ fetchCalls = <<>>
           /\ postCalls = <<>>
           /\ doneCalls = <<NoError>>

\* C10: an invocation issues at most one metadata fetch and at most one POST,
\* whatever the outcomes of its callbacks.
C10_AtMostOneFetchAndPost ==
    Len(fetchCalls) <= 1 /\ Len(postCalls) <= 1

C10_Witness ==
    /\ Len(fetchCalls) = 1
    /\ Len(postCalls) = 1
    /\ postState = "ended"
    /\ doneCalls = <<RestErrorMsg>>

\* C11: key normalization is idempotent: normalizing the object that
\* getBlobMetadata produced gives that same object again.
C11_NormalizationIdempotent ==
    (fetchState = "calledBack" /\ fetchResult.hasResult /\ EnvComplete)
        => GetBlobMetadata(NormalizedEntries(fetchResult.metadata, Len(fetchResult.metadata)))
           = GetBlobMetadata(fetchResult.metadata)

\* ------------------------------------------------------------ the request built
Built == postCalls # <<>>
Fetched == fetchResult.metadata
Normalized == GetBlobMetadata(Fetched)
RequestOptions == postCalls[1].options
RequestHeaders == postCalls[1].options.headers
Descriptor == postCalls[1].body
Properties == postCalls[1].body.binaryStreamObject.properties
FixedProperties == {<<"objectKey">>, <<"originalFileName">>, <<"fullObjectPath">>,
                    <<"contentSize">>, <<"user">>, <<"role">>, <<"ownershipData">>}
Present(obj, k) == k \in DOMAIN obj
RawPresent(k) == \E i \in 1..Len(Fetched) : Fetched[i].key = k

\* C12: for every POST the tenant id stored in the metadata under
\* 'x_rdp_tenantid' or 'x-rdp-tenantid' is the 'x-rdp-tenantId' header and the
\* first segment of the path '/<tenantId>/api/binarystreamobjectservice/create';
\* the method is POST and host and port are those of the environment.
C12_TenantIdEndToEnd ==
    Built =>
        /\ \E i \in 1..Len(Fetched) :
                /\ Fetched[i].key \in {<<"x_rdp_", "tenantid">>, <<"x-rdp-", "tenantid">>}
                /\ Fetched[i].value = RequestHeaders["x-rdp-tenantId"]
                /\ RequestOptions.path = <<Slash, Fetched[i].value, Slash, "api", Slash,
                                           "binarystreamobjectservice", Slash, "create">>
        /\ RequestOptions.method = "POST"
        /\ RequestOptions.host = EnvValue("ENV_RDP_HOST")
        /\ RequestOptions.port = EnvValue("ENV_RDP_PORT")

C12_Witness ==
    /\ Built
    /\ Fetched = <<[key |-> <<"x_rdp_", "tenantid">>, value |-> "T1"]>>
    /\ RequestHeaders["x-rdp-tenantId"] = "T1"
    /\ RequestOptions.path[2] = "T1"

\* C13 as stated: the headers hold tenant id, client id, user id and user
\* roles; each of the last three is the normalized metadata value when the key
\* is present and the configured default otherwise; 'x-rdp-ownershipData' is
\* there exactly when the metadata has 'x-rdp-ownershipdata', with its value.
HeaderFrom(header, key, default, present(_, _)) ==
    /\ header \in DOMAIN RequestHeaders
    /\ RequestHeaders[header] = IF present(Normalized, key) THEN Normalized[key] ELSE default

OwnershipFrom(present(_, _)) ==
    /\ "x-rdp-ownershipData" \in DOMAIN RequestHeaders <=> present(Normalized, OwnershipDataKey)
    /\ present(Normalized, OwnershipDataKey)
            => RequestHeaders["x-rdp-ownershipData"] = Normalized[OwnershipDataKey]

HeadersFrom(present(_, _)) ==
    /\ "x-rdp-tenantId" \in DOMAIN RequestHeaders
    /\ HeaderFrom("x-rdp-clientId", ClientIdKey, EnvValue("ENV_CLIENT_ID"), present)
    /\ HeaderFrom("x-rdp-userId", UserIdKey, EnvValue("ENV_DEFAULT_USER_ID"), present)
    /\ HeaderFrom("x-rdp-userRoles", UserRolesKey, EnvValue("ENV_DEFAULT_USER_ROLES"), present)
    /\ OwnershipFrom(present)

C13_HeadersWhenPresent == Built => HeadersFrom(Present)

\* C13 as amended: the same with "present" read as "present with a non-empty
\* value": an entry whose value is empty counts as absent.
NonEmpty(obj, k) == Truthy(Prop(obj, k))

C13_HeadersWhenNonEmpty == Built => HeadersFrom(NonEmpty)

C13_Witness ==
    /\ Built
    /\ Present(Normalized, ClientIdKey) /\ Normalized[ClientIdKey] = ""
    /\ RequestHeaders["x-rdp-clientId"] = EnvValue("ENV_CLIENT_ID")
    /\ Present(Normalized, UserIdKey) /\ RequestHeaders["x-rdp-userId"] = "user"

\* C14 as stated: the descriptor's id is the metadata 'binarystreamobjectid'
\* value if the key is present and the invocation id otherwise; originalFileName
\* is the metadata 'originalfilename' value if present and the last segment of
\* the object key otherwise; a present 'originalfilename' is no property itself.
IdAndFileNameFrom(present(_)) ==
    /\ Descriptor.binaryStreamObject.id =
            IF present(ObjectIdKey) THEN RawProp(Fetched, ObjectIdKey) ELSE InvocationId
    /\ Properties[<<"originalFileName">>] =
            IF present(OriginalFileNameKey) THEN <<RawProp(Fetched, OriginalFileNameKey)>>
            ELSE Pop(Split(fetchResult.name))
    /\ present(OriginalFileNameKey) => OriginalFileNameKey \notin DOMAIN Properties

C14_IdAndFileNameWhenPresent == Built => IdAndFileNameFrom(RawPresent)

\* C14 as amended: the same with "present" read as "present with a non-empty
\* value".
RawNonEmpty(k) == Truthy(RawProp(Fetched, k))

C14_IdAndFileNameWhenNonEmpty == Built => IdAndFileNameFrom(RawNonEmpty)

C14_Witness ==
    /\ Built
    /\ RawProp(Fetched, ObjectIdKey) = "B1"
    /\ RawProp(Fetched, OriginalFileNameKey) = "f.jpg"
    /\ Descriptor.binaryStreamObject.id = "B1"
    /\ Properties[<<"originalFileName">>] = <<"f.jpg">>
    /\ OriginalFileNameKey \notin DOMAIN Properties

\* C15: a metadata key is copied into the properties exactly when it does not
\* start with the reserved prefix, in its canonical or its escaped form, and is
\* not a property already; no tenant id, client id, user id, user roles or
\* ownership data entry is copied, in either form.
StartsWithReserved(k) == k[1] \in {RDP_PREFIX, RDP_ESCAPING_PREFIX}
HeaderBearing(k) ==
    NormalizeKey(k) \in {TenantIdKey, ClientIdKey, UserIdKey, UserRolesKey, OwnershipDataKey}

C15_CopiedIffNotReserved ==
    Built =>
        \A i \in 1..Len(Fetched) :
            LET k == Fetched[i].key
            IN  k # OriginalFileNameKey =>
                    /\ (k \in DOMAIN Properties /\ k \notin FixedProperties)
                            <=> (~StartsWithReserved(k) /\ k \notin FixedProperties)
                    /\ HeaderBearing(k) => k \notin DOMAIN Properties

\* C17: the task id is the invocation id unless the metadata has a non-empty
\* entry under the key literally named TASK_ID_METADATA_PROPERTY, whose value
\* it then is; an entry under 'x-rdp-taskid' or 'x_rdp_taskid' changes nothing.
DescriptorTaskId == Descriptor.clientAttributes.taskId.values[1].value

C17_TaskIdByLiteralName ==
    Built => DescriptorTaskId = IF Truthy(RawProp(Fetched, TaskIdPropertyName))
                                THEN RawProp(Fetched, TaskIdPropertyName)
                                ELSE InvocationId

C17_Witness ==
    /\ Built
    /\ RawProp(Fetched, TASK_ID_METADATA_PROPERTY) = "task"
    /\ RawProp(Fetched, <<"x_rdp_", "taskid">>) = "task-escaped"
    /\ DescriptorTaskId = InvocationId

\* C16: in either handler every invocation ends with the completion signal
\* raised: once the storage service and the HTTP server have answered and
\* nothing is outstanding, context.done has been called, also after a rejected
\* subject, a fetch error, an empty result or a missing tenant id.
C16_EveryInvocationCompletes ==
    (Quiescent /\ ~crashed) => doneCalls # <<>>

\* C19: in src/index.js context.done is called at most once in an invocation.
C19_DoneAtMostOnce ==
    handler = "index" => Len(doneCalls) <= 1

\* C20: in src/index.js, when the first completion signal carries no error,
\* either the subject was rejected, or the fetched result was empty or had no
\* tenant id, or the POST was answered with 200 and status "success".
C20_FirstSuccessIsJustified ==
    (handler = "index" /\ doneCalls # <<>> /\ doneCalls[1] = NoError)
        => \/ Len(Segments) # SubjectSegments
           \/ /\ fetchState = "calledBack"
              /\ ~fetchResult.error
              /\ ~fetchResult.hasResult \/ ~Truthy(FetchedTenantId)
           \/ /\ postState = "ended"
              /\ statusCode = HttpOk
              /\ ResponseStatusIs("success")

====
